---- MODULE Spec2Model ----
(***************************************************************************)
(* Model of backend/main.py: the request handlers of the Physical AI       *)
(* Chatbot API.  Three definitions of chat are registered on POST /chat    *)
(* (lines 37, 120 and 161); signup and signin are registered on            *)
(* POST /signup and POST /signin.  The collaborators (GeminiService,       *)
(* DatabaseService) are opaque: each call either returns a value or        *)
(* raises, chosen nondeterministically.                                    *)
(*                                                                         *)
(* A text is a sequence of tokens.  Selected texts are sequences of        *)
(* one-character tokens so that slicing is modelled position by position;  *)
(* literals of the source are one token each.                              *)
(***************************************************************************)
EXTENDS Integers, Sequences, FiniteSets, TLC

\* ---------------------------------------------------------------- bounds
NumReq == 2
MaxSelLen == 220

\* ------------------------------------------------------ program constants
TruncLen == 200

Reqs == 1..NumReq
Single == {1}
Registrations == {1, 2, 3}

Min(a, b) == IF a < b THEN a ELSE b

\* ------------------------------------------------------------ input sets
SelChars(n) == [i \in 1..n |-> IF i % 3 = 0 THEN "x" ELSE IF i % 3 = 1 THEN "y" ELSE "z"]

SelLens == {1, TruncLen - 1, TruncLen, TruncLen + 1, 210, MaxSelLen}

NoneSel == [present |-> FALSE, text |-> <<>>]
StrSel(s) == [present |-> TRUE, text |-> s]

SelectedTexts == {NoneSel, StrSel(<<>>)} \cup {StrSel(SelChars(n)) : n \in SelLens}
ConcSelectedTexts == {NoneSel, StrSel(SelChars(2))}

Messages == {<<>>, <<"What is ROS 2?">>, <<"Explain this">>}
ConcMessages == {<<"What is ROS 2?">>, <<"Explain this">>}

GenTexts == {<<"ROS 2 is a robotics middleware.">>, <<"This passage describes Gazebo.">>}
GenErrors == {<<"429 quota exceeded">>, <<"timeout">>}
DbErrors == {<<"connection refused">>}
AuthMessages == {<<"Invalid email or password">>}
CreateMessages == {<<"Email already registered">>}
Emails == {<<"a@example.com">>, <<"b@example.com">>}
Passwords == {<<"pw">>}
Users == {<<"user-1">>}

\* str(HTTPException) depends on the installed framework: releases that
\* define __str__ give "<status_code>: <detail>", older ones give "".
HttpExcStrForms == {"status_detail", "empty"}

VARIABLES
    httpExcStr,  \* which str(HTTPException) the installed framework has
    pc,          \* position of each request
    route,       \* "none", "chat", "signup", "signin"
    reg,         \* which registration of POST /chat serves the request
    message,     \* the ChatMessage / request dict of each request
    context,     \* local variable context
    sources,     \* local variable sources
    response,    \* local variable response
    result,      \* local variable result (signup, signin)
    trace,       \* collaborator calls and their outcomes, in order
    reply        \* what the caller receives

vars == <<httpExcStr, pc, route, reg, message, context, sources, response, result, trace, reply>>

\* ----------------------------------------------------------- exceptions
HTTPException(status_code, detail) ==
    [type |-> "HTTPException", status_code |-> status_code, detail |-> detail]
Exception(msg) == [type |-> "Exception", status_code |-> 0, detail |-> msg]

StatusText(n) ==
    CASE n = 400 -> "400" [] n = 401 -> "401" [] n = 500 -> "500" [] OTHER -> "0"

\* str(e)
Str(e) ==
    IF e.type = "HTTPException"
    THEN IF httpExcStr = "status_detail"
         THEN <<StatusText(e.status_code), ": ">> \o e.detail
         ELSE <<>>
    ELSE e.detail

NoMessage == [message |-> <<>>, selected_text |-> NoneSel, email |-> <<>>, password |-> <<>>]
NoResult == [kind |-> "none", success |-> FALSE, message |-> <<>>, user |-> <<>>, has_user |-> FALSE]
NoReply == [status |-> 0, response |-> <<>>, sources |-> <<>>, detail |-> <<>>, user |-> <<>>]

\* the framework turns a raised HTTPException into a status and a detail
ErrorReply(e) == [NoReply EXCEPT !.status = e.status_code, !.detail = e.detail]
\* ChatResponse(response=response, sources=sources), status 200
ChatResponse(resp, srcs) == [NoReply EXCEPT !.status = 200, !.response = resp, !.sources = srcs]
UserReply(u) == [NoReply EXCEPT !.status = 200, !.user = u]

Event(ev, arg) == [ev |-> ev, arg |-> arg]

\* --------------------------------------------------------- pure helpers
\* variant: `if message.selected_text is not None:`
IsTruthy_NotNone(sel) == sel.present

\* `if message.selected_text:` -- None and "" are both falsy
IsTruthy(sel) == sel.present /\ Len(sel.text) > 0

\* s[:n] -- a slice never raises; it stops at the end of s
Slice(s, n) == [i \in 1..Min(Len(s), n) |-> s[i]]

Ellipsis == <<".", ".", ".">>

\* variant: the ellipsis is appended only when something was cut off
SelectedExcerpt_OnlyWhenLong(s) == IF Len(s) > TruncLen THEN Slice(s, TruncLen) \o Ellipsis ELSE s

\* message.selected_text[:200] + "..."
SelectedExcerpt(s) == Slice(s, TruncLen) \o Ellipsis

SystemPrompt == <<"You are a helpful assistant for a Physical AI & Humanoid Robotics textbook.">>

SelectedSources(s) == <<[text |-> SelectedExcerpt(s), source |-> "Selected Text"]>>
GeminiSources == <<[text |-> <<"AI Knowledge Base">>, source |-> "Gemini"]>>
AISources == <<[text |-> <<"AI Knowledge Base">>, source |-> "AI"]>>

\* `except Exception as e: raise HTTPException(500, detail=str(e))`
\* HTTPException is a subclass of Exception, so it is caught as well.
except_500(e) == HTTPException(500, Str(e))

\* variant: the outer `except HTTPException: raise` clause is missing
chat_161_except_CatchAll(e) == HTTPException(500, <<"Server error: ">> \o Str(e))

\* the outer handlers of the third chat definition
chat_161_except(e) ==
    IF e.type = "HTTPException"
    THEN e
    ELSE HTTPException(500, <<"Server error: ">> \o Str(e))

\* the inner handler around generate_response of the third chat definition
chat_161_ai_error(ai_error) == HTTPException(500, <<"AI service error: ">> \o Str(ai_error))

\* ------------------------------------------------------------------ Init
Init ==
    /\ httpExcStr \in HttpExcStrForms
    /\ pc = [r \in Reqs |-> "idle"]
    /\ route = [r \in Reqs |-> "none"]
    /\ reg = [r \in Reqs |-> 0]
    /\ message = [r \in Reqs |-> NoMessage]
    /\ context = [r \in Reqs |-> <<>>]
    /\ sources = [r \in Reqs |-> <<>>]
    /\ response = [r \in Reqs |-> <<>>]
    /\ result = [r \in Reqs |-> NoResult]
    /\ trace = [r \in Reqs |-> <<>>]
    /\ reply = [r \in Reqs |-> NoReply]

\* ------------------------------------------------------------- dispatch
\* A POST /chat request arrives; one of the registered definitions serves it.
\* All three stay in the router's table (the decorator registers each before
\* the name chat is rebound); which one runs is the router's choice (a
\* first-match router picks the one at line 37, a direct call of main.chat
\* runs the one at line 161), so the model lets any of them serve.
PostChatWith(r, msgs, sels) ==
    /\ pc[r] = "idle"
    /\ \E m \in msgs, s \in sels, g \in Registrations :
        /\ message' = [message EXCEPT ![r] = [NoMessage EXCEPT !.message = m, !.selected_text = s]]
        /\ reg' = [reg EXCEPT ![r] = g]
    /\ route' = [route EXCEPT ![r] = "chat"]
    /\ pc' = [pc EXCEPT ![r] = "recv"]
    /\ UNCHANGED <<httpExcStr, context, sources, response, result, trace, reply>>

PostChat(r) == PostChatWith(r, Messages, SelectedTexts)
PostChatConc(r) == PostChatWith(r, ConcMessages, ConcSelectedTexts)

\* ---------------------------------------------------- chat, lines 37-65
ChatBegin(r, g, ctx, srcs) ==
    /\ pc[r] = "recv" /\ route[r] = "chat" /\ reg[r] = g
    /\ context' = [context EXCEPT ![r] = ctx]
    /\ sources' = [sources EXCEPT ![r] = srcs]
    /\ trace' = [trace EXCEPT ![r] = Append(@, Event("generate_response", <<message[r].message, ctx>>))]
    /\ pc' = [pc EXCEPT ![r] = "gen"]
    /\ UNCHANGED <<httpExcStr, route, reg, message, response, result, reply>>

Finish(r, rep, evs) ==
    /\ reply' = [reply EXCEPT ![r] = rep]
    /\ trace' = [trace EXCEPT ![r] = @ \o evs \o <<Event("respond", <<>>)>>]
    /\ pc' = [pc EXCEPT ![r] = "done"]

\* generate_response returned t: response is bound and save_chat is awaited
GenOk(r, t) ==
    /\ response' = [response EXCEPT ![r] = t]
    /\ trace' = [trace EXCEPT ![r] = @ \o <<Event("generate_ok", <<t>>),
            Event("save_chat", <<message[r].message, t, message[r].selected_text>>)>>]
    /\ pc' = [pc EXCEPT ![r] = "save"]
    /\ UNCHANGED <<httpExcStr, route, reg, message, context, sources, result, reply>>

chat_37_Begin(r) ==
    LET sel == message[r].selected_text IN
    IF IsTruthy(sel)
    THEN ChatBegin(r, 1, sel.text, SelectedSources(sel.text))
    ELSE ChatBegin(r, 1, SystemPrompt, GeminiSources)

chat_37_GenReturn(r) ==
    /\ pc[r] = "gen" /\ route[r] = "chat" /\ reg[r] = 1
    /\ \/ \E t \in GenTexts : GenOk(r, t)
       \/ \E m \in GenErrors :
            /\ Finish(r, ErrorReply(except_500(Exception(m))), <<Event("generate_raise", <<m>>)>>)
            /\ UNCHANGED <<httpExcStr, route, reg, message, context, sources, response, result>>

chat_37_SaveReturn(r) ==
    /\ pc[r] = "save" /\ route[r] = "chat" /\ reg[r] = 1
    /\ \/ Finish(r, ChatResponse(response[r], sources[r]), <<Event("save_ok", <<>>)>>)
       \/ \E m \in DbErrors :
            Finish(r, ErrorReply(except_500(Exception(m))), <<Event("save_raise", <<m>>)>>)
    /\ UNCHANGED <<httpExcStr, route, reg, message, context, sources, response, result>>

\* -------------------------------------------------- chat, lines 120-159
chat_120_Begin(r) ==
    LET sel == message[r].selected_text IN
    IF IsTruthy(sel)
    THEN ChatBegin(r, 2, sel.text, SelectedSources(sel.text))
    ELSE ChatBegin(r, 2, SystemPrompt, GeminiSources)

chat_120_GenReturn(r) ==
    /\ pc[r] = "gen" /\ route[r] = "chat" /\ reg[r] = 2
    /\ \/ \E t \in GenTexts : GenOk(r, t)
       \/ \E m \in GenErrors :
            /\ Finish(r, ErrorReply(except_500(Exception(m))), <<Event("generate_raise", <<m>>)>>)
            /\ UNCHANGED <<httpExcStr, route, reg, message, context, sources, response, result>>

chat_120_SaveReturn(r) ==
    /\ pc[r] = "save" /\ route[r] = "chat" /\ reg[r] = 2
    /\ \/ Finish(r, ChatResponse(response[r], sources[r]), <<Event("save_ok", <<>>)>>)
       \/ \E m \in DbErrors :
            Finish(r, ErrorReply(except_500(Exception(m))), <<Event("save_raise", <<m>>)>>)
    /\ UNCHANGED <<httpExcStr, route, reg, message, context, sources, response, result>>

\* -------------------------------------------------- chat, lines 161-220
chat_161_Begin(r) ==
    LET sel == message[r].selected_text IN
    IF IsTruthy(sel)
    THEN ChatBegin(r, 3, sel.text, SelectedSources(sel.text))
    ELSE ChatBegin(r, 3, SystemPrompt, AISources)

\* variant: save_chat is started but not awaited before the response
chat_161_GenReturn_NoAwait(r) ==
    /\ pc[r] = "gen" /\ route[r] = "chat" /\ reg[r] = 3
    /\ \/ \E t \in GenTexts :
            /\ response' = [response EXCEPT ![r] = t]
            /\ Finish(r, ChatResponse(t, sources[r]), <<Event("generate_ok", <<t>>),
                      Event("save_chat", <<message[r].message, t, message[r].selected_text>>)>>)
            /\ UNCHANGED <<httpExcStr, route, reg, message, context, sources, result>>
       \/ \E m \in GenErrors :
            /\ Finish(r, ErrorReply(chat_161_except(chat_161_ai_error(Exception(m)))),
                      <<Event("generate_raise", <<m>>)>>)
            /\ UNCHANGED <<httpExcStr, route, reg, message, context, sources, response, result>>

\* variant: a failed generation is retried once
chat_161_GenReturn_Retry(r) ==
    /\ pc[r] = "gen" /\ route[r] = "chat" /\ reg[r] = 3
    /\ \/ \E t \in GenTexts : GenOk(r, t)
       \/ \E m \in GenErrors :
            IF Len(trace[r]) < 2
            THEN /\ trace' = [trace EXCEPT ![r] = @ \o <<Event("generate_raise", <<m>>),
                        Event("generate_response", <<message[r].message, context[r]>>)>>]
                 /\ UNCHANGED <<httpExcStr, pc, route, reg, message, context, sources, response, result, reply>>
            ELSE /\ Finish(r, ErrorReply(chat_161_except(chat_161_ai_error(Exception(m)))),
                           <<Event("generate_raise", <<m>>)>>)
                 /\ UNCHANGED <<httpExcStr, route, reg, message, context, sources, response, result>>

chat_161_GenReturn(r) ==
    /\ pc[r] = "gen" /\ route[r] = "chat" /\ reg[r] = 3
    /\ \/ \E t \in GenTexts : GenOk(r, t)
       \/ \E m \in GenErrors :
            /\ Finish(r, ErrorReply(chat_161_except(chat_161_ai_error(Exception(m)))),
                      <<Event("generate_raise", <<m>>)>>)
            /\ UNCHANGED <<httpExcStr, route, reg, message, context, sources, response, result>>

\* variant: response is a module-level name shared by the requests in flight
chat_161_SaveReturn_Shared(r) ==
    /\ pc[r] = "save" /\ route[r] = "chat" /\ reg[r] = 3
    /\ \E q \in Reqs :
        /\ pc[q] \in {"save", "done"} /\ route[q] = "chat"
        /\ \/ Finish(r, ChatResponse(response[q], sources[r]), <<Event("save_ok", <<>>)>>)
           \/ \E m \in DbErrors :
                Finish(r, ChatResponse(response[q], sources[r]), <<Event("save_raise", <<m>>)>>)
    /\ UNCHANGED <<httpExcStr, route, reg, message, context, sources, response, result>>

\* a failure of save_chat is printed and dropped; the response is returned
chat_161_SaveReturn(r) ==
    /\ pc[r] = "save" /\ route[r] = "chat" /\ reg[r] = 3
    /\ \/ Finish(r, ChatResponse(response[r], sources[r]), <<Event("save_ok", <<>>)>>)
       \/ \E m \in DbErrors :
            Finish(r, ChatResponse(response[r], sources[r]), <<Event("save_raise", <<m>>)>>)
    /\ UNCHANGED <<httpExcStr, route, reg, message, context, sources, response, result>>

\* ------------------------------------------------- signin, lines 100-118
PostAccount(r, rt) ==
    /\ pc[r] = "idle"
    /\ \E e \in Emails, p \in Passwords :
        message' = [message EXCEPT ![r] = [NoMessage EXCEPT !.email = e, !.password = p]]
    /\ route' = [route EXCEPT ![r] = rt]
    /\ pc' = [pc EXCEPT ![r] = "recv"]
    /\ UNCHANGED <<httpExcStr, reg, context, sources, response, result, trace, reply>>

PostSignin(r) == PostAccount(r, "signin")
PostSignup(r) == PostAccount(r, "signup")

\* what authenticate_user / create_user may return (a dict), without raising
OkResult(u) == [kind |-> "returned", success |-> TRUE, message |-> <<>>, user |-> u, has_user |-> TRUE]
FailResult(m, hu) == [kind |-> "returned", success |-> FALSE, message |-> m, user |-> <<>>, has_user |-> hu]

AuthResults == {OkResult(u) : u \in Users} \cup {FailResult(m, hu) : m \in AuthMessages, hu \in BOOLEAN}
CreateResults == {OkResult(<<>>)} \cup {FailResult(m, FALSE) : m \in CreateMessages}

signin_Begin(r) ==
    /\ pc[r] = "recv" /\ route[r] = "signin"
    /\ trace' = [trace EXCEPT ![r] = Append(@, Event("authenticate_user", <<message[r].email, message[r].password>>))]
    /\ pc' = [pc EXCEPT ![r] = "auth"]
    /\ UNCHANGED <<httpExcStr, route, reg, message, context, sources, response, result, reply>>

signin_AuthReturn(r) ==
    /\ pc[r] = "auth" /\ route[r] = "signin"
    /\ \/ \E res \in AuthResults :
            /\ result' = [result EXCEPT ![r] = res]
            /\ IF res.success
               THEN Finish(r, UserReply(res.user), <<Event("authenticate_returned", <<>>)>>)
               ELSE Finish(r, ErrorReply(except_500(HTTPException(401, res.message))),
                           <<Event("authenticate_returned", <<>>)>>)
       \/ \E m \in DbErrors :
            /\ Finish(r, ErrorReply(except_500(Exception(m))), <<Event("authenticate_raise", <<m>>)>>)
            /\ UNCHANGED result
    /\ UNCHANGED <<httpExcStr, route, reg, message, context, sources, response>>

\* --------------------------------------------------- signup, lines 67-98
signup_Begin(r) ==
    /\ pc[r] = "recv" /\ route[r] = "signup"
    /\ trace' = [trace EXCEPT ![r] = Append(@, Event("create_user", <<message[r].email, message[r].password>>))]
    /\ pc' = [pc EXCEPT ![r] = "create"]
    /\ UNCHANGED <<httpExcStr, route, reg, message, context, sources, response, result, reply>>

signup_CreateReturn(r) ==
    /\ pc[r] = "create" /\ route[r] = "signup"
    /\ \/ \E res \in CreateResults :
            /\ result' = [result EXCEPT ![r] = res]
            /\ IF res.success
               THEN /\ trace' = [trace EXCEPT ![r] = @ \o <<Event("create_returned", <<>>),
                            Event("authenticate_user", <<message[r].email, message[r].password>>)>>]
                    /\ pc' = [pc EXCEPT ![r] = "auth"]
                    /\ UNCHANGED reply
               ELSE Finish(r, ErrorReply(except_500(HTTPException(400, res.message))),
                           <<Event("create_returned", <<>>)>>)
       \/ \E m \in DbErrors :
            /\ Finish(r, ErrorReply(except_500(Exception(m))), <<Event("create_raise", <<m>>)>>)
            /\ UNCHANGED result
    /\ UNCHANGED <<httpExcStr, route, reg, message, context, sources, response>>

\* auth_result["user"] raises KeyError('user') when the dict has no such key
KeyErrorUser == Exception(<<"'user'">>)

signup_AuthReturn(r) ==
    /\ pc[r] = "auth" /\ route[r] = "signup"
    /\ \/ \E auth_result \in AuthResults :
            IF auth_result.has_user
            THEN Finish(r, UserReply(auth_result.user), <<Event("authenticate_returned", <<>>)>>)
            ELSE Finish(r, ErrorReply(except_500(KeyErrorUser)), <<Event("authenticate_returned", <<>>)>>)
       \/ \E m \in DbErrors :
            Finish(r, ErrorReply(except_500(Exception(m))), <<Event("authenticate_raise", <<m>>)>>)
    /\ UNCHANGED <<httpExcStr, route, reg, message, context, sources, response, result>>

\* ------------------------------------------------------- specifications
ChatStep(r) ==
    \/ chat_37_Begin(r)
    \/ chat_37_GenReturn(r)
    \/ chat_37_SaveReturn(r)
    \/ chat_120_Begin(r)
    \/ chat_120_GenReturn(r)
    \/ chat_120_SaveReturn(r)
    \/ chat_161_Begin(r)
    \/ chat_161_GenReturn(r)
    \/ chat_161_SaveReturn(r)

\* one request at a time, every input
Next ==
    \E r \in Single :
        \/ PostChat(r)
        \/ ChatStep(r)
        \/ PostSignin(r)
        \/ signin_Begin(r)
        \/ signin_AuthReturn(r)
        \/ PostSignup(r)
        \/ signup_Begin(r)
        \/ signup_CreateReturn(r)
        \/ signup_AuthReturn(r)

Spec == Init /\ [][Next]_vars

\* NumReq chat requests in flight at once, interleaved at every collaborator call
NextConc ==
    \E r \in Reqs :
        \/ PostChatConc(r)
        \/ ChatStep(r)

SpecConc == Init /\ [][NextConc]_vars

\* ================================================================ claims
ChatDone(r) == route[r] = "chat" /\ pc[r] = "done"
Positions(r, ev) == {i \in 1..Len(trace[r]) : trace[r][i].ev = ev}
Has(r, ev) == Positions(r, ev) # {}
Count(r, ev) == Cardinality(Positions(r, ev))
ArgOf(r, ev) == trace[r][CHOOSE i \in Positions(r, ev) : TRUE].arg
NonEmptySel(sel) == sel.present /\ sel.text # <<>>
Contains(d, m) == \E i \in 0..(Len(d) - Len(m)) : SubSeq(d, i + 1, i + Len(m)) = m

\* C1: whenever the generation call of a /chat request succeeded, the request
\* ends with status 200, the generated text and the attribution of step 1,
\* whether save_chat succeeded or raised; a 500 only follows a failed
\* generation call.
C1_PersistenceFailureSuppressed ==
    \A r \in Reqs :
        ChatDone(r) =>
            /\ Has(r, "generate_ok") =>
                /\ reply[r].status = 200
                /\ reply[r].response = ArgOf(r, "generate_ok")[1]
                /\ reply[r].sources = sources[r]
            /\ reply[r].status = 500 => Has(r, "generate_raise")

C3_SelectedExcerpt ==
    \A r \in Reqs :
        ChatDone(r) =>
            /\ (reply[r].status = 200 /\ NonEmptySel(message[r].selected_text)) =>
                LET s == message[r].selected_text.text
                    k == IF Len(s) < TruncLen THEN Len(s) ELSE TruncLen
                IN  /\ Len(reply[r].sources) = 1
                    /\ reply[r].sources[1].source = "Selected Text"
                    /\ Len(reply[r].sources[1].text) = k + 3
                    /\ \A i \in 1..k : reply[r].sources[1].text[i] = s[i]
                    /\ \A i \in (k + 1)..(k + 3) : reply[r].sources[1].text[i] = "."
                    /\ Len(s) = 210 => Len(reply[r].sources[1].text) = 203
            /\ reply[r].status = 500 => (Has(r, "generate_raise") \/ Has(r, "save_raise"))

C3_Witness ==
    \E r \in Reqs :
        /\ ChatDone(r) /\ reply[r].status = 200
        /\ Len(message[r].selected_text.text) < TruncLen
        /\ NonEmptySel(message[r].selected_text)

\* C4: one context is chosen per /chat request, from selectedText alone: the
\* selection itself when it is present and non-empty, otherwise the fixed
\* system prompt together with the general-knowledge attribution, whatever
\* the message is.
C4_ContextChoice ==
    \A r \in Reqs :
        (route[r] = "chat" /\ pc[r] \in {"gen", "save", "done"}) =>
            LET sel == message[r].selected_text
                chosen == IF NonEmptySel(sel) THEN sel.text ELSE SystemPrompt
            IN  /\ Count(r, "generate_response") = 1
                /\ ArgOf(r, "generate_response") = <<message[r].message, chosen>>
                /\ context[r] = chosen
                /\ ~NonEmptySel(sel) =>
                    /\ Len(sources[r]) = 1
                    /\ sources[r][1].text = <<"AI Knowledge Base">>
                    /\ sources[r][1].source \in {"Gemini", "AI"}
                /\ reply[r].status = 200 => reply[r].sources = sources[r]

C4_Witness ==
    \E r \in Reqs :
        /\ ChatDone(r) /\ reply[r].status = 200
        /\ message[r].selected_text = StrSel(<<>>)
        /\ message[r].message = <<>>

\* C5: a /chat request without selectedText whose generation call returns t is
\* answered with sources [{text: "AI Knowledge Base", source: "Gemini"}] and
\* the response text t.
C5_GeneralKnowledgeSources ==
    \A r \in Reqs :
        (ChatDone(r) /\ reply[r].status = 200 /\ ~message[r].selected_text.present) =>
            /\ reply[r].sources = <<[text |-> <<"AI Knowledge Base">>, source |-> "Gemini"]>>
            /\ reply[r].response = ArgOf(r, "generate_ok")[1]

\* C6: within a /chat request save_chat starts only after generate_response
\* returned, the response is produced only after save_chat completed (ok or
\* raised), and the record saved is (message, generated text, selectedText).
C6_StepOrder ==
    \A r \in Reqs :
        route[r] = "chat" =>
            /\ \A i \in Positions(r, "save_chat") :
                \E j \in Positions(r, "generate_ok") :
                    /\ j < i
                    /\ trace[r][i].arg = <<message[r].message, trace[r][j].arg[1], message[r].selected_text>>
            /\ \A i \in Positions(r, "respond") :
                \A j \in Positions(r, "save_chat") :
                    \E k \in Positions(r, "save_ok") \cup Positions(r, "save_raise") : j < k /\ k < i
            /\ reply[r].status = 200 => Has(r, "save_chat")
            /\ pc[r] = "save" => reply[r] = NoReply

C6_Witness ==
    \E r \in Reqs : ChatDone(r) /\ reg[r] = 3 /\ Has(r, "save_raise") /\ reply[r].status = 200

\* C7: generate_response is invoked exactly once per /chat request and
\* save_chat at most once; one generation failure ends the request as failed;
\* a returned ChatResponse carries exactly the text its generation call returned.
C7_NoRetryNoPartial ==
    \A r \in Reqs :
        route[r] = "chat" =>
            /\ Count(r, "generate_response") <= 1
            /\ pc[r] \in {"gen", "save", "done"} => Count(r, "generate_response") = 1
            /\ Count(r, "save_chat") <= 1
            /\ Count(r, "generate_ok") + Count(r, "generate_raise") <= 1
            /\ Has(r, "generate_raise") => (pc[r] = "done" /\ reply[r].status # 200)
            /\ reply[r].status = 200 =>
                (Has(r, "generate_ok") /\ reply[r].response = ArgOf(r, "generate_ok")[1])

C7_Witness ==
    \E r \in Reqs :
        /\ ChatDone(r) /\ Has(r, "generate_raise")
        /\ Count(r, "generate_response") = 1 /\ reply[r].status # 200

\* C8: with several /chat requests in flight, what a request returns and
\* persists is made of its own message, selectedText and collaborator
\* outcomes only, under every interleaving.
C8_Independent ==
    \A r \in Reqs :
        route[r] = "chat" =>
            LET sel == message[r].selected_text
                own == IF NonEmptySel(sel) THEN sel.text ELSE SystemPrompt
            IN  /\ \A i \in Positions(r, "generate_response") :
                    trace[r][i].arg = <<message[r].message, own>>
                /\ \A i \in Positions(r, "save_chat") :
                    trace[r][i].arg = <<message[r].message, ArgOf(r, "generate_ok")[1], sel>>
                /\ reply[r].status = 200 =>
                    /\ reply[r].response = ArgOf(r, "generate_ok")[1]
                    /\ Len(reply[r].sources) = 1
                    /\ IF NonEmptySel(sel)
                       THEN /\ reply[r].sources[1].source = "Selected Text"
                            /\ \A i \in 1..Len(sel.text) : reply[r].sources[1].text[i] = sel.text[i]
                       ELSE reply[r].sources[1].text = <<"AI Knowledge Base">>
                /\ reply[r].status = 500 =>
                    \/ Has(r, "generate_raise") /\ Contains(reply[r].detail, ArgOf(r, "generate_raise")[1])
                    \/ Has(r, "save_raise") /\ Contains(reply[r].detail, ArgOf(r, "save_raise")[1])

C8_Witness ==
    \E r \in Reqs, q \in Reqs :
        /\ ChatDone(r) /\ reply[r].status = 200
        /\ route[q] = "chat" /\ pc[q] = "save"
        /\ response[q] # response[r]
        /\ message[q] # message[r]

\* C9: the three definitions of chat give, for the same input and the same
\* collaborator outcomes, the same status, response text, sources and
\* sequence of collaborator calls.
IsCall(e) == e.ev \in {"generate_response", "save_chat"}
IsOutcome(e) == e.ev \in {"generate_ok", "generate_raise", "save_ok", "save_raise"}
C9_RegistrationsEquivalent ==
    \A r \in Reqs, q \in Reqs :
        (/\ ChatDone(r) /\ ChatDone(q)
         /\ message[r] = message[q]
         /\ Has(r, "generate_ok") <=> Has(q, "generate_ok")
         /\ Has(r, "generate_ok") => ArgOf(r, "generate_ok") = ArgOf(q, "generate_ok")
         /\ Has(r, "generate_raise") => ArgOf(r, "generate_raise") = ArgOf(q, "generate_raise")
         /\ Has(r, "save_ok") <=> Has(q, "save_ok")
         /\ Has(r, "save_raise") <=> Has(q, "save_raise"))
        =>  /\ reply[r].status = reply[q].status
            /\ reply[r].response = reply[q].response
            /\ reply[r].sources = reply[q].sources
            /\ SelectSeq(trace[r], IsCall) = SelectSeq(trace[q], IsCall)

\* C10: a failure that authenticate_user / create_user reports as a value
\* (success = false) ends /signin with 401 and /signup with 400 carrying the
\* collaborator's message; 500 only follows a raising collaborator call; in
\* /signup authenticate_user is called only after create_user succeeded.
C10_AccountFailureStatus ==
    \A r \in Reqs :
        /\ (route[r] = "signin" /\ pc[r] = "done" /\ result[r].kind = "returned" /\ ~result[r].success) =>
            (reply[r].status = 401 /\ reply[r].detail = result[r].message)
        /\ (route[r] = "signup" /\ pc[r] = "done" /\ result[r].kind = "returned" /\ ~result[r].success) =>
            (reply[r].status = 400 /\ reply[r].detail = result[r].message)
        /\ (route[r] \in {"signin", "signup"} /\ reply[r].status = 500) =>
            (Has(r, "authenticate_raise") \/ Has(r, "create_raise"))
        /\ (route[r] = "signup" /\ Has(r, "authenticate_user")) =>
            (result[r].kind = "returned" /\ result[r].success)
====
